---- MODULE Spec2Model ----
(***************************************************************************)
(* A model of the minimal Arduino core (cores/arduino/Arduino.cpp and      *)
(* Arduino.h): the setup()/loop() driver in main(), the pin and timing     *)
(* stubs, the busy-wait delays, random() and map().                        *)
(*                                                                         *)
(* setup() and loop() are supplied by the sketch that is linked against    *)
(* the core.  The model lets the sketch call the core's API in any order   *)
(* while one of the two callbacks is running; the variable sketch says     *)
(* which family of API functions the linked sketch uses.                   *)
(***************************************************************************)
EXTENDS Integers, Sequences, FiniteSets, TLC

(***************************************************************************)
(* Program constants (Arduino.h) and the widths of the AVR target's types. *)
(***************************************************************************)
HIGH == 1
LOW == 0
INPUT == 0
OUTPUT == 1
INPUT_PULLUP == 2
LED_BUILTIN == 13
A5 == 19

\* unsigned long and long are 32 bits wide, unsigned int 16 bits, on AVR.
ULONG_BITS == 32
UINT_BITS == 16
UINT8_BITS == 8
\* Unsigned values are kept as two limbs <<high, low>>, each as wide as an
\* unsigned int, so that no intermediate value of the 32-bit arithmetic
\* leaves the model checker's integers.
LIMB_BITS == UINT_BITS
\* RAND_MAX of avr-libc's rand().
RAND_MAX == 32767
\* The factor of the loop bound ms * 1000 in delay().
DELAY_FACTOR == 1000

Pow2(n) == 2 ^ n

(***************************************************************************)
(* Bounds of the model.                                                    *)
(***************************************************************************)
\* map() is called with x in -MaxX .. 10 + MaxX.
MaxX == 3
\* rand() draws 0 .. MaxSmallRand besides RAND_MAX - 1 and RAND_MAX.
MaxSmallRand == 2

(***************************************************************************)
(* C integer arithmetic.                                                   *)
(***************************************************************************)
Abs(n) == IF n < 0 THEN -n ELSE n

Sign(n) == IF n < 0 THEN -1 ELSE IF n > 0 THEN 1 ELSE 0

FloorDiv(a, b) == IF b > 0 THEN a \div b ELSE (-a) \div (-b)

\* A division that rounds toward minus infinity, for every sign of b.
CDivFloor(a, b) == FloorDiv(a, b)

\* The / of C on signed operands: the quotient truncated toward zero.
CDiv(a, b) == Sign(a) * Sign(b) * (Abs(a) \div Abs(b))

\* The % of C on signed operands: a - (a / b) * b.
CRem(a, b) == a - CDiv(a, b) * b

Limb == Pow2(LIMB_BITS)

\* The unsigned value n, 0 <= n < 2^31, as limbs.
UL(n) == <<n \div Limb, n % Limb>>

\* a * k modulo 2^32, for a factor k < 2^15.
ULTimes(a, k) ==
    LET low == a[2] * k
        high == a[1] * k + low \div Limb
    IN  <<high % Limb, low % Limb>>

\* a - b modulo 2^32: the wraparound-safe difference.
ULMinus(a, b) ==
    LET borrow == IF a[2] < b[2] THEN 1 ELSE 0
    IN  <<(a[1] - b[1] - borrow) % Limb, (a[2] - b[2]) % Limb>>

ULLess(a, b) == a[1] < b[1] \/ (a[1] = b[1] /\ a[2] < b[2])

ULLessEq(a, b) == a = b \/ ULLess(a, b)

\* a + 1 on an unsigned type of the given width.
ULSucc(a, bits) ==
    IF a[2] + 1 < Limb /\ (bits >= LIMB_BITS \/ a[2] + 1 < Pow2(bits))
       THEN <<a[1], a[2] + 1>>
       ELSE IF bits > LIMB_BITS
               THEN <<(a[1] + 1) % Pow2(bits - LIMB_BITS), 0>>
               ELSE <<0, 0>>

(***************************************************************************)
(* State.                                                                  *)
(***************************************************************************)
VARIABLES
    sketch,      \* the sketch linked against the core (its setup and loop)
    pc,          \* main()'s position
    setupCalls,  \* how many times main() has called setup()
    loopStarted, \* whether main() has called loop() yet
    api,         \* the busy-wait function the sketch is inside of, or "none"
    i,           \* its loop counter
    lastCall,    \* the most recent API call, with its result once returned
    readings,    \* the most recent value returned by millis() and by micros()
    harness,     \* progress of the sequence millis(); delay(ms); millis()
    track,       \* progress of pinMode(p, OUTPUT); digitalWrite(p, v)
    seed         \* the seed last given to srand()

vars == <<sketch, pc, setupCalls, loopStarted, api, i, lastCall,
          readings, harness, track, seed>>

(***************************************************************************)
(* The sketches: which API functions setup() and loop() call, and with     *)
(* which arguments.                                                        *)
(***************************************************************************)
Sketches == {"io", "timing", "busywait", "math"}

Calls(s) ==
    CASE s = "io" -> {"pinMode", "digitalWrite", "digitalRead", "analogRead",
                      "analogWrite", "millis", "micros"}
      [] s = "timing" -> {"millis", "micros", "delay", "delayMicroseconds"}
      [] s = "busywait" -> {"delay", "delayMicroseconds"}
      [] s = "math" -> {"map", "random", "randomSeed"}

\* Pin numbers the sketch passes: the Uno's pins 0, 13 and A5 = 19, and
\* numbers beyond the Uno's last pin.
Pins == {0, LED_BUILTIN, A5, A5 + 1, Pow2(UINT8_BITS) - 1}

Modes == {INPUT, OUTPUT, INPUT_PULLUP}

Levels == {LOW, HIGH}

Duties == {0, 255, 300}

\* Arguments of delay(): 4294968 is the least ms with ms * 1000 >= 2^32.
DelayArgs(s) ==
    IF s = "timing" THEN {UL(0), UL(1), UL(4294968)}
                    ELSE {UL(0), UL(4294968)}

\* Arguments of delayMicroseconds(): 65535 is the largest unsigned int.
DelayMicrosecondsArgs(s) ==
    IF s = "timing" THEN {UL(0), UL(1), UL(300)}
                    ELSE {UL(0), UL(Pow2(UINT_BITS) - 1)}

\* What rand() may return: 0 .. RAND_MAX.
RandValues == 0 .. MaxSmallRand \cup {RAND_MAX - 1, RAND_MAX}

Seeds == {0, 1, 42}

HowBigs == {-3, 0, 1, 7}

RangeEnds == {-5, 0, 3, 10}

MapXs == (0 - MaxX) .. (10 + MaxX)

\* The ranges <<in_min, in_max>> and <<out_min, out_max>> given to map().
MapInRanges == {<<0, 10>>, <<10, 0>>, <<-2, 3>>, <<0, 0>>}

MapOutRanges == {<<0, 100>>, <<100, 0>>, <<-7, 5>>, <<0, 7>>}

\* What a division by zero may leave in the result register.
DivZeroResults == {-1, 0, 1}

(***************************************************************************)
(* Records of API calls.                                                   *)
(***************************************************************************)
\* ret is <<>> for a void function (and while the call is running) and <<v>>
\* for a returned value v; iters is the number of busy-wait iterations
\* executed; drew is the number of calls of rand(); prev is the previous
\* reading of the same clock.
Call(fn, args, ret) ==
    [fn |-> fn, args |-> args, ret |-> ret, iters |-> UL(0), drew |-> 0,
     prev |-> <<>>]

NoCall == Call("none", <<>>, <<>>)

Init ==
    /\ sketch \in Sketches
    /\ pc = "main_entry"
    /\ setupCalls = 0
    /\ loopStarted = FALSE
    /\ api = "none"
    /\ i = UL(0)
    /\ lastCall = NoCall
    /\ readings = [millis |-> <<>>, micros |-> <<>>]
    /\ harness = <<>>
    /\ track = <<>>
    /\ seed = 1

(***************************************************************************)
(* main(): setup() once, then loop() forever.                              *)
(***************************************************************************)
\* Where main() continues when setup() returns.
AfterSetup == "for_head"

\* loop() returning to the top of main() instead of the head of the for.
AfterLoopRestart == "main_entry"

\* Where main() continues when loop() returns.
AfterLoop == "for_head"

\* A loop that runs its body once only.
ForConditionOnce == ~loopStarted

\* The condition of for (;;): absent, hence true.
ForCondition == TRUE

driverVars == <<pc, setupCalls, loopStarted>>

sketchVars == <<api, i, lastCall, readings, harness, track, seed>>

CallSetup ==
    /\ pc = "main_entry"
    /\ pc' = "in_setup"
    /\ setupCalls' = setupCalls + 1
    /\ UNCHANGED <<sketch, loopStarted, sketchVars>>

SetupReturn ==
    /\ pc = "in_setup"
    /\ api = "none"
    /\ pc' = AfterSetup
    /\ UNCHANGED <<sketch, setupCalls, loopStarted, sketchVars>>

CallLoop ==
    /\ pc = "for_head"
    /\ IF ForCondition
          THEN pc' = "in_loop" /\ loopStarted' = TRUE
          ELSE pc' = "main_return" /\ UNCHANGED loopStarted
    /\ UNCHANGED <<sketch, setupCalls, sketchVars>>

LoopReturn ==
    /\ pc = "in_loop"
    /\ api = "none"
    /\ pc' = AfterLoop
    /\ UNCHANGED <<sketch, setupCalls, loopStarted, sketchVars>>

\* The sketch is running (inside setup() or loop()) and may call fn.
CanCall(fn) ==
    /\ pc \in {"in_setup", "in_loop"}
    /\ api = "none"
    /\ fn \in Calls(sketch)

(***************************************************************************)
(* Digital and analog I/O stubs.                                           *)
(***************************************************************************)
\* What each stub returns.
digitalReadResult(pin) == LOW

analogReadResult(pin) == 0

\* The pin tracked after a call of fn on pin p: <<>> none, <<p>> after
\* pinMode(p, OUTPUT), <<p, v>> after a following digitalWrite(p, v).
TrackAfter(fn, p, v) ==
    CASE fn = "pinMode" ->
            IF v = OUTPUT THEN <<p>>
            ELSE IF track # <<>> /\ track[1] = p THEN <<>> ELSE track
      [] fn = "digitalWrite" ->
            IF track # <<>> /\ track[1] = p THEN <<p, v>> ELSE track
      [] fn = "analogWrite" ->
            IF track # <<>> /\ track[1] = p THEN <<p>> ELSE track
      [] OTHER -> track

\* An API call that returns at once and leaves the core's state alone.
Returns(call) ==
    /\ lastCall' = call
    /\ harness' = <<>>
    /\ UNCHANGED <<sketch, driverVars, api, i, readings, seed>>

PinMode ==
    /\ CanCall("pinMode")
    /\ \E pin \in Pins, mode \in Modes :
          /\ Returns(Call("pinMode", <<pin, mode>>, <<>>))
          /\ track' = TrackAfter("pinMode", pin, mode)

DigitalWrite ==
    /\ CanCall("digitalWrite")
    /\ \E pin \in Pins, val \in Levels :
          /\ Returns(Call("digitalWrite", <<pin, val>>, <<>>))
          /\ track' = TrackAfter("digitalWrite", pin, val)

DigitalRead ==
    /\ CanCall("digitalRead")
    /\ \E pin \in Pins :
          /\ Returns(Call("digitalRead", <<pin>>, <<digitalReadResult(pin)>>))
          /\ UNCHANGED track

AnalogRead ==
    /\ CanCall("analogRead")
    /\ \E pin \in Pins :
          /\ Returns(Call("analogRead", <<pin>>, <<analogReadResult(pin)>>))
          /\ UNCHANGED track

AnalogWrite ==
    /\ CanCall("analogWrite")
    /\ \E pin \in Pins, val \in Duties :
          /\ Returns(Call("analogWrite", <<pin, val>>, <<>>))
          /\ track' = TrackAfter("analogWrite", pin, val)

(***************************************************************************)
(* Timing stubs.                                                           *)
(***************************************************************************)
\* A clock that steps backwards after its first reading.
millisBackwards == IF readings.millis = <<>> THEN UL(1) ELSE UL(0)

millis == UL(0)

micros == UL(0)

Millis ==
    /\ CanCall("millis")
    /\ lastCall' = [Call("millis", <<>>, <<millis>>) EXCEPT
                       !.prev = readings.millis]
    /\ readings' = [readings EXCEPT !.millis = <<millis>>]
    /\ harness' = IF Len(harness) = 2 THEN Append(harness, millis)
                                      ELSE <<millis>>
    /\ UNCHANGED <<sketch, driverVars, api, i, track, seed>>

Micros ==
    /\ CanCall("micros")
    /\ lastCall' = [Call("micros", <<>>, <<micros>>) EXCEPT
                       !.prev = readings.micros]
    /\ readings' = [readings EXCEPT !.micros = <<micros>>]
    /\ harness' = <<>>
    /\ UNCHANGED <<sketch, driverVars, api, i, track, seed>>

(***************************************************************************)
(* delay() and delayMicroseconds(): busy-wait loops.                       *)
(***************************************************************************)
\* A loop counter narrower than its bound.
CounterBitsNarrow(fn) == UINT8_BITS

\* The width in bits of the loop counter of fn, which is that of its bound.
CounterBits(fn) == IF fn = "delay" THEN ULONG_BITS ELSE UINT_BITS

\* The loop bound: ms * 1000 in unsigned long arithmetic, or us.
LoopBound(fn, n) == IF fn = "delay" THEN ULTimes(n, DELAY_FACTOR) ELSE n

\* The loop condition written i <= bound.
LoopConditionInclusive(fn, k, n) == ULLessEq(k, LoopBound(fn, n))

\* The loop condition i < bound.
LoopCondition(fn, k, n) == ULLess(k, LoopBound(fn, n))

\* i++ on the unsigned counter.
Increment(fn, k) == ULSucc(k, CounterBits(fn))

Enter(fn, n) ==
    /\ api' = fn
    /\ i' = UL(0)
    /\ lastCall' = Call(fn, <<n>>, <<>>)
    /\ UNCHANGED <<sketch, driverVars, readings, track, seed>>

DelayCall ==
    /\ CanCall("delay")
    /\ \E ms \in DelayArgs(sketch) :
          /\ Enter("delay", ms)
          /\ harness' = IF Len(harness) = 1 THEN Append(harness, ms) ELSE <<>>

DelayMicrosecondsCall ==
    /\ CanCall("delayMicroseconds")
    /\ \E us \in DelayMicrosecondsArgs(sketch) :
          /\ Enter("delayMicroseconds", us)
          /\ harness' = <<>>

\* One iteration of the loop: the nop, then i++.
BusyWaitStep ==
    /\ api # "none"
    /\ LoopCondition(api, i, lastCall.args[1])
    /\ i' = Increment(api, i)
    /\ UNCHANGED <<sketch, driverVars, api, lastCall, readings, harness,
                   track, seed>>

\* The loop condition fails and the function returns.
BusyWaitReturn ==
    /\ api # "none"
    /\ ~LoopCondition(api, i, lastCall.args[1])
    /\ lastCall' = [lastCall EXCEPT !.iters = i]
    /\ api' = "none"
    /\ i' = UL(0)
    /\ UNCHANGED <<sketch, driverVars, readings, harness, track, seed>>

(***************************************************************************)
(* Random numbers.  rand() is the C library's: its value r is an input.    *)
(***************************************************************************)
\* random(howbig), given the value r that rand() returns when called.
random_1(howbig, r) ==
    IF howbig = 0 THEN [ret |-> 0, drew |-> 0]
                  ELSE [ret |-> CRem(r, howbig), drew |-> 1]

\* random(howsmall, howbig) without the offset howsmall added.
random_2NoOffset(howsmall, howbig, r) ==
    IF howsmall >= howbig
       THEN [ret |-> howsmall, drew |-> 0]
       ELSE random_1(howbig - howsmall, r)

\* random(howsmall, howbig).
random_2(howsmall, howbig, r) ==
    IF howsmall >= howbig
       THEN [ret |-> howsmall, drew |-> 0]
       ELSE LET diff == howbig - howsmall
                d == random_1(diff, r)
            IN  [ret |-> d.ret + howsmall, drew |-> d.drew]

RandomSeed ==
    /\ CanCall("randomSeed")
    /\ \E s \in Seeds :
          /\ seed' = IF s # 0 THEN s ELSE seed
          /\ lastCall' = Call("randomSeed", <<s>>, <<>>)
    /\ UNCHANGED <<sketch, driverVars, api, i, readings, harness, track>>

Random1 ==
    /\ CanCall("random")
    /\ \E howbig \in HowBigs, r \in RandValues :
          LET res == random_1(howbig, r)
          IN  lastCall' = [Call("random", <<howbig>>, <<res.ret>>) EXCEPT
                              !.drew = res.drew]
    /\ UNCHANGED <<sketch, driverVars, api, i, readings, harness, track,
                   seed>>

Random2 ==
    /\ CanCall("random")
    /\ \E howsmall \in RangeEnds, howbig \in RangeEnds, r \in RandValues :
          LET res == random_2(howsmall, howbig, r)
          IN  lastCall' = [Call("random", <<howsmall, howbig>>, <<res.ret>>)
                              EXCEPT !.drew = res.drew]
    /\ UNCHANGED <<sketch, driverVars, api, i, readings, harness, track,
                   seed>>

(***************************************************************************)
(* map().                                                                  *)
(***************************************************************************)
map(x, in_min, in_max, out_min, out_max) ==
    CDiv((x - in_min) * (out_max - out_min), in_max - in_min) + out_min

Map ==
    /\ CanCall("map")
    /\ \E x \in MapXs, in \in MapInRanges, out \in MapOutRanges :
          \E ret \in IF in[2] = in[1]
                        THEN {q + out[1] : q \in DivZeroResults}
                        ELSE {map(x, in[1], in[2], out[1], out[2])} :
             lastCall' = Call("map", <<x, in[1], in[2], out[1], out[2]>>,
                              <<ret>>)
    /\ UNCHANGED <<sketch, driverVars, api, i, readings, harness, track,
                   seed>>

(***************************************************************************)
(* The specifications.                                                     *)
(***************************************************************************)
Next ==
    \/ CallSetup
    \/ SetupReturn
    \/ CallLoop
    \/ LoopReturn
    \/ PinMode
    \/ DigitalWrite
    \/ DigitalRead
    \/ AnalogRead
    \/ AnalogWrite
    \/ Millis
    \/ Micros
    \/ DelayCall
    \/ DelayMicrosecondsCall
    \/ BusyWaitStep
    \/ BusyWaitReturn
    \/ RandomSeed
    \/ Random1
    \/ Random2
    \/ Map

Spec == Init /\ [][Next]_vars

\* The processor keeps executing main() and the busy-wait loops, and the
\* sketch's setup() and loop() return whenever they are called.
FairSpec ==
    /\ Spec
    /\ WF_vars(CallSetup)
    /\ WF_vars(CallLoop)
    /\ WF_vars(BusyWaitStep)
    /\ WF_vars(BusyWaitReturn)
    /\ SF_vars(SetupReturn)
    /\ SF_vars(LoopReturn)

(***************************************************************************)
(* Properties.                                                             *)
(***************************************************************************)
\* The last API call has returned and was a call of fn.
Returned(fn) == api = "none" /\ lastCall.fn = fn

\* C1: setup() is called exactly once, no call of loop() starts before that
\* call has returned, and setup() is not called again once loop() has been
\* called.
C1_SetupOnceBeforeLoop ==
    /\ setupCalls <= 1
    /\ (pc # "main_entry" => setupCalls = 1)
    /\ (pc = "in_setup" => ~loopStarted)
    /\ (pc = "in_loop" => loopStarted)
    /\ (loopStarted => pc \in {"for_head", "in_loop"})

\* loop() is running, after the one call of setup(), and has called the API.
C1_Witness ==
    pc = "in_loop" /\ setupCalls = 1 /\ loopStarted /\ lastCall.fn # "none"

\* C2: when setup() and every loop() return, main() never reaches its
\* return: a returning loop() leads straight back to the head of the for,
\* whose only step is the next call of loop(), and loop() is called
\* infinitely often.
C2_LoopForever ==
    /\ [](pc # "main_return")
    /\ [][pc = "in_loop" /\ pc' # "in_loop" => pc' = "for_head"]_vars
    /\ [][pc = "for_head" => pc' = "in_loop"]_vars
    /\ []<><<CallLoop>>_vars

\* loop() has returned and is about to be called again.
C2_Witness == pc = "for_head" /\ loopStarted /\ lastCall.fn # "none"

\* C3: map(x, 0, 10, 0, 100) is 50, 0, 100 and -10 for x = 5, 0, 10 and -1;
\* for in_min # in_max the result is out_min plus the quotient of
\* (x - in_min) * (out_max - out_min) by (in_max - in_min) truncated toward
\* zero, so in_min maps to out_min and in_max to out_max, and x outside
\* the input range is extrapolated, not clamped.
C3_MapTruncates ==
    Returned("map") /\ lastCall.args[2] # lastCall.args[3] =>
        LET x == lastCall.args[1]
            in_min == lastCall.args[2]
            in_max == lastCall.args[3]
            out_min == lastCall.args[4]
            out_max == lastCall.args[5]
            n == (x - in_min) * (out_max - out_min)
            d == in_max - in_min
            q == lastCall.ret[1] - out_min
        IN  /\ Abs(q * d) <= Abs(n)
            /\ Abs(n) - Abs(q * d) < Abs(d)
            /\ (q # 0 => Sign(q) = Sign(n) * Sign(d))
            /\ (x = in_min => lastCall.ret[1] = out_min)
            /\ (x = in_max => lastCall.ret[1] = out_max)
            /\ (<<in_min, in_max, out_min, out_max>> = <<0, 10, 0, 100>> =>
                   /\ lastCall.ret[1] = 10 * x
                   /\ (x = 5 => lastCall.ret[1] = 50)
                   /\ (x = 0 => lastCall.ret[1] = 0)
                   /\ (x = 10 => lastCall.ret[1] = 100)
                   /\ (x = -1 => lastCall.ret[1] = -10))

\* map(-3, -2, 3, -7, 5): -12 / 5 truncates to -2, and the result is -9.
C3_Witness ==
    /\ Returned("map")
    /\ lastCall.args = <<-3, -2, 3, -7, 5>>
    /\ lastCall.ret = <<-9>>

\* C4: with t1 = millis() read just before delay(ms) and t2 = millis() read
\* just after it, the wraparound-safe difference t2 - t1 is at least ms.
C4_DelayBlocksAtLeastMs ==
    api = "none" /\ Len(harness) = 3 =>
        ULLessEq(harness[2], ULMinus(harness[3], harness[1]))

\* C5: delay(0) and delayMicroseconds(0) execute no iteration of their wait
\* loop: the counter stays 0, no iteration is possible, and none was
\* executed when they return.
C5_ZeroDelayNoIterations ==
    /\ lastCall.fn \in {"delay", "delayMicroseconds"}
    /\ lastCall.args = <<UL(0)>>
    => /\ i = UL(0)
       /\ lastCall.iters = UL(0)
       /\ (api # "none" => ~ENABLED BusyWaitStep /\ ENABLED BusyWaitReturn)

\* delay(0) has returned.
C5_Witness ==
    Returned("delay") /\ lastCall.args = <<UL(0)>> /\ lastCall.iters = UL(0)

\* The pins that have a descriptor: the Uno's 0 .. A5.
HasDescriptor(pin) == pin \in 0 .. A5

\* C6: after pinMode(p, OUTPUT) and then digitalWrite(p, v) on a valid pin
\* p, with no later write to p, digitalRead(p) returns v.
C6_WriteThenReadBack ==
    /\ Returned("digitalRead")
    /\ Len(track) = 2
    /\ track[1] = lastCall.args[1]
    /\ HasDescriptor(track[1])
    => lastCall.ret = <<track[2]>>

\* What a call of fn may return for a valid pin.
ValidResults(fn) ==
    CASE fn = "digitalRead" -> {LOW, HIGH}
      [] fn = "analogRead" -> 0 .. 1023
      [] OTHER -> {}

\* The call gave its caller something no successful call gives.
ReportsError(call) ==
    call.ret # <<>> /\ call.ret[1] \notin ValidResults(call.fn)

\* C7: pinMode, digitalWrite, digitalRead, analogRead and analogWrite report
\* an error to the caller when the pin has no descriptor.
C7_InvalidPinReported ==
    /\ api = "none"
    /\ lastCall.fn \in {"pinMode", "digitalWrite", "digitalRead",
                        "analogRead", "analogWrite"}
    /\ ~HasDescriptor(lastCall.args[1])
    => ReportsError(lastCall)

\* C8: a reading of millis() or micros() is never less than the previous
\* reading of the same clock, whatever was called in between.
C8_ClocksMonotonic ==
    /\ lastCall.fn \in {"millis", "micros"}
    /\ lastCall.prev # <<>>
    => ULLessEq(lastCall.prev[1], lastCall.ret[1])

\* millis() has been read before and after a delay().
C8_Witness ==
    Returned("millis") /\ lastCall.prev # <<>> /\ Len(harness) = 3

\* C9: random(howsmall, howbig) is in howsmall .. howbig - 1 when
\* howsmall < howbig, and is howsmall, with rand() not called, when
\* howsmall >= howbig; random(0) is 0, with rand() not called.
C9_RandomInRange ==
    Returned("random") =>
        LET r == lastCall.ret[1]
        IN  IF Len(lastCall.args) = 2
               THEN LET howsmall == lastCall.args[1]
                        howbig == lastCall.args[2]
                    IN  IF howsmall < howbig
                           THEN howsmall <= r /\ r < howbig
                           ELSE r = howsmall /\ lastCall.drew = 0
               ELSE lastCall.args[1] = 0 => r = 0 /\ lastCall.drew = 0

\* random(-5, 3) with rand() = RAND_MAX: 32767 % 8 - 5 = 2.
C9_Witness ==
    /\ Returned("random")
    /\ lastCall.args = <<-5, 3>>
    /\ lastCall.ret = <<2>>
    /\ lastCall.drew = 1

\* C10: delay(ms) and delayMicroseconds(us) terminate: the counter never
\* passes the bound, every call returns, delay after (ms * 1000) mod 2^32
\* iterations (1000 for ms = 1, 704 for ms = 4294968) and delayMicroseconds
\* after us iterations.
C10_BusyWaitTerminates ==
    /\ [](api # "none" => ULLessEq(i, LoopBound(api, lastCall.args[1])))
    /\ [](Returned("delay") =>
             /\ lastCall.iters = ULTimes(lastCall.args[1], DELAY_FACTOR)
             /\ (lastCall.args[1] = UL(1) => lastCall.iters = UL(1000))
             /\ (lastCall.args[1] = UL(4294968) => lastCall.iters = UL(704)))
    /\ [](Returned("delayMicroseconds") => lastCall.iters = lastCall.args[1])
    /\ (api # "none") ~> (api = "none")

\* delay(4294968), whose bound wraps to 704, has returned.
C10_Witness ==
    /\ Returned("delay")
    /\ lastCall.args = <<UL(4294968)>>
    /\ lastCall.iters = UL(704)

====
